---- MODULE Spec2Model ----
(***************************************************************************)
(* The denoising loop of ScaleCrafter's text2image.py: the closure         *)
(* `forward` built by pipeline_processor (src/text2image.py:88-295) and    *)
(* the way main (src/text2image.py:317-417) calls it.                      *)
(*                                                                         *)
(* Tensors are abstracted to integers, the external collaborators (the     *)
(* UNet, the DDIM scheduler, rescale_noise_cfg) to fixed arithmetic        *)
(* functions of their arguments.  Dilation rates are kept DOUBLED (the     *)
(* field `dilate` of a processor holds 2 * rate), because the only         *)
(* non-integer operation of the loop is `dilate = dilate / 2` at line      *)
(* 205/233; base rates are drawn from the integers 1..MaxRate.             *)
(***************************************************************************)
EXTENDS Integers, Sequences, FiniteSets

\* ------------------------------------------------------------------ bounds
MaxTau == 2
MaxSteps == 2
MaxRate == 3

\* named_modules() of the UNet, in iteration order: a convolution, which
\* the settings files may name, and a module they never name.
ModuleNames == <<"conv1", "attn1">>
Layers == {ModuleNames[k] : k \in 1..Len(ModuleNames)}
ConvNames == {"conv1"}

\* guidance_scale values handed to forward (1 stands for 1.0: guidance off).
GuidanceScales == {1, 2}
\* guidance_rescale values handed to forward (0 stands for 0.0, the default).
GuidanceRescales == {0, 1}
\* transform: None, or the matrix R loaded by main.
Transforms == {"None", "R"}

None == "None"
self_unet == "self.unet"

VARIABLES
    \* pipeline_processor's arguments (immutable during a run)
    ndcfg_tau, dilate_tau, inflate_tau, dilate_settings, inflate_settings,
    ndcfg_dilate_settings, transform, progressive,
    \* forward's arguments
    num_inference_steps, guidance_scale, guidance_rescale,
    \* forward's locals
    pc, i, unet, unet_inflate, unet_inflate_vanilla, backup_forwards,
    noise_pred, noise_pred_vanilla, noise_pred_text, noise_pred_uncond,
    discarded, latents,
    \* the exception that left forward, if any
    error,
    \* the heap: per network object, each module's forward attribute and the
    \* set of modules whose kernels were inflated
    forward, inflated,
    \* observers (not program state): the events of the current step, every
    \* processor installed so far, the scheduler updates so far, and the
    \* latent of the unmodified network/scheduler loop run side by side
    log, history, num_updates, plain_latents

config == <<ndcfg_tau, dilate_tau, inflate_tau, dilate_settings, inflate_settings,
            ndcfg_dilate_settings, transform, progressive,
            num_inference_steps, guidance_scale, guidance_rescale>>

vars == <<ndcfg_tau, dilate_tau, inflate_tau, dilate_settings, inflate_settings,
          ndcfg_dilate_settings, transform, progressive,
          num_inference_steps, guidance_scale, guidance_rescale,
          pc, i, unet, unet_inflate, unet_inflate_vanilla, backup_forwards,
          noise_pred, noise_pred_vanilla, noise_pred_text, noise_pred_uncond,
          discarded, latents, error,
          forward, inflated, log, history, num_updates, plain_latents>>

\* forward's prediction locals; `discarded` is the local named _ of line 254.
preds == <<noise_pred, noise_pred_vanilla, noise_pred_text, noise_pred_uncond, discarded>>

\* ----------------------------------------------------------------- helpers
Max(a, b) == IF a >= b THEN a ELSE b

\* math.ceil(n / d) for an integer n and d > 0.
Ceil(n, d) == -((-n) \div d)

\* The dictionaries read_dilate_settings can return for this network, with
\* base rates drawn from `rates`.
DilateSettings(rates) == UNION {[K -> rates] : K \in SUBSET ConvNames}

\* A module's own forward, and the processor object line 207/235 installs.
OrigForward == [processor |-> "forward", dilate |-> 0, activate |-> FALSE]

ReDilateConvProcessor(dilate, activate) ==
    [processor |-> "ReDilateConvProcessor", dilate |-> dilate, activate |-> activate]

\* model.ReDilateConvProcessor.__call__: with activate the convolution runs
\* dilation-aware, without it the call passes through to the convolution.
DilationActive(f) == f.processor = "ReDilateConvProcessor" /\ f.activate

\* ------------------------------------------------- external collaborators
\* self.scheduler.timesteps after set_timesteps(num_inference_steps): the
\* DDIM schedule is strictly decreasing, one timestep per inference step.
Timestep(step) == num_inference_steps - 1 - step

\* DDIMScheduler.scale_model_input returns its sample unchanged.
ScaleModelInput(sample, t) == sample

\* DDIMScheduler.step(noise, t, latents)[0], an opaque update rule.
SchedulerStep(noise, t, sample) == 2 * sample - noise + t

\* rescale_noise_cfg(noise_cfg, noise_pred_text, guidance_rescale), opaque.
RescaleNoiseCfg(noise_cfg, text, rescale) == noise_cfg + rescale * (text + 1)

\* What one module contributes to the network's output: its kernels
\* (inflated or not) and the way its forward attribute computes.
ModuleEffect(fwd, infl, k) ==
    LET name == ModuleNames[k]
    IN  (IF DilationActive(fwd[name]) THEN 10 * k * fwd[name].dilate ELSE 0)
        + (IF name \in infl THEN 100 * k ELSE 0)

RECURSIVE SumEffects(_, _, _)
SumEffects(fwd, infl, k) ==
    IF k = 0 THEN 0 ELSE ModuleEffect(fwd, infl, k) + SumEffects(fwd, infl, k - 1)

\* One sample of the UNet's output: an opaque function of the sample, the
\* timestep, the text embedding (0 negative prompt, 1 prompt) and the
\* network's modules; the modules weigh on the two embeddings differently.
UNetSample(fwd, infl, sample, t, embed) ==
    7 * sample + 3 * t + (1 + embed) * (5 + SumEffects(fwd, infl, Len(ModuleNames)))

\* ------------------------------------------------------------ forward()
\* Guidance switched on at guidance_scale = 1.0 already.
do_classifier_free_guidance_inclusive == guidance_scale >= 1

\* line 141
do_classifier_free_guidance == guidance_scale > 1

\* _encode_prompt: [negative_prompt_embeds, prompt_embeds] under guidance.
prompt_embeds == IF do_classifier_free_guidance THEN <<0, 1>> ELSE <<1>>

\* lines 193-194
latent_model_input ==
    LET batch == IF do_classifier_free_guidance THEN <<latents, latents>> ELSE <<latents>>
    IN  [k \in DOMAIN batch |-> ScaleModelInput(batch[k], Timestep(i))]

\* unet(latent_model_input, t, encoder_hidden_states=prompt_embeds).sample
UNetCall(u) ==
    [k \in DOMAIN latent_model_input |->
        UNetSample(forward[u], inflated[u], latent_model_input[k], Timestep(i), prompt_embeds[k])]

\* copy.deepcopy(self.unet): a fresh object.
NewObject == IF "copy1" \notin DOMAIN forward THEN "copy1" ELSE "copy2"

\* model.inflate_kernels(unet, inflate_settings, transform): the named
\* modules get their kernels enlarged, in place.
InflateKernels(names) == names \cap Layers

\* lines 180-184
BuildInflate == transform # None

\* lines 186-189
BuildInflateVanilla == transform # None /\ ndcfg_tau > 0

\* line 196
SelectAdapted == IF i < inflate_tau /\ transform # None THEN unet_inflate ELSE self_unet

\* The vanilla branch handed the adapted branch's copy.
SelectVanilla_adapted_copy ==
    IF i < inflate_tau /\ transform # None THEN unet_inflate ELSE self_unet

\* line 224
SelectVanilla == IF i < inflate_tau /\ transform # None THEN unet_inflate_vanilla ELSE self_unet

\* The vanilla window one step too long.
VanillaBranch_inclusive == i <= ndcfg_tau

\* line 223
VanillaBranch == i < ndcfg_tau

\* The progressive rate without its floor of 2.
Dilate_no_floor(settings, name, tau) ==
    LET dilate0 == settings[name]
        dilate1 == IF progressive
                   THEN Ceil(dilate0 * (tau - i), tau)
                   ELSE dilate0
    IN  IF i < inflate_tau /\ name \in inflate_settings
        THEN dilate1
        ELSE 2 * dilate1

\* lines 201-205 (229-233): the doubled rate handed to the processor.
Dilate(settings, name, tau) ==
    LET dilate0 == settings[name]
        dilate1 == IF progressive
                   THEN Max(Ceil(dilate0 * (tau - i), tau), 2)
                   ELSE dilate0
    IN  IF i < inflate_tau /\ name \in inflate_settings
        THEN dilate1
        ELSE 2 * dilate1

\* line 203 (231) divides by tau.
DivisionByZero(settings, tau) ==
    progressive /\ tau = 0 /\ (DOMAIN settings) \cap Layers # {}

\* The first module of named_modules() that is a key of settings.
FirstKey(settings) ==
    LET ks == {k \in 1..Len(ModuleNames) : ModuleNames[k] \in DOMAIN settings}
    IN  ModuleNames[CHOOSE k \in ks : \A m \in ks : k <= m]

\* Every processor installed with activate=True.
PatchForwards_always_active(u, settings, tau) ==
    [name \in Layers |->
        IF name \in DOMAIN settings
        THEN ReDilateConvProcessor(Dilate(settings, name, tau), TRUE)
        ELSE forward[u][name]]

\* lines 198-209 (226-237): the forwards of network u after the patch loop.
PatchForwards(u, settings, tau) ==
    [name \in Layers |->
        IF name \in DOMAIN settings
        THEN ReDilateConvProcessor(Dilate(settings, name, tau), i < tau)
        ELSE forward[u][name]]

\* lines 197-200 (225-228): the backup the patch loop builds.
BackupForwards(u, settings) ==
    [name \in (DOMAIN settings) \cap Layers |-> forward[u][name]]

\* The restore loop left out.
RestoreForwards_skipped(u) == forward[u]

\* lines 219-221 (246-248): the forwards of network u after the restore loop.
RestoreForwards(u) ==
    [name \in Layers |->
        IF name \in DOMAIN backup_forwards
        THEN backup_forwards[name]
        ELSE forward[u][name]]

\* Both halves taken from the vanilla prediction inside the ndcfg window.
GuidedNoise_all_vanilla ==
    LET uncond == noise_pred[1]
        text == noise_pred[2]
    IN  IF i < ndcfg_tau
        THEN noise_pred_vanilla[1] + guidance_scale * (noise_pred_vanilla[2] - noise_pred_vanilla[1])
        ELSE uncond + guidance_scale * (text - uncond)

\* lines 252-257: the guided estimate.
GuidedNoise ==
    LET uncond == noise_pred[1]
        text == noise_pred[2]
    IN  IF i < ndcfg_tau
        THEN noise_pred_vanilla[1] + guidance_scale * (text - uncond)
        ELSE uncond + guidance_scale * (text - uncond)

\* The noise estimate of StableDiffusionPipeline.__call__, the loop forward
\* was derived from, on the unmodified network.
PlainNoise ==
    LET orig == [name \in Layers |-> OrigForward]
        out(e) == UNetSample(orig, {}, ScaleModelInput(plain_latents, Timestep(i)), Timestep(i), e)
        guided == out(0) + guidance_scale * (out(1) - out(0))
    IN  IF guidance_scale > 1
        THEN IF guidance_rescale > 0
             THEN RescaleNoiseCfg(guided, out(1), guidance_rescale)
             ELSE guided
        ELSE out(1)

Event(op, branch, u) == [op |-> op, branch |-> branch, unet |-> u]

Installed(branch, u, settings, tau) ==
    LET ks == {k \in 1..Len(ModuleNames) : ModuleNames[k] \in DOMAIN settings}
        F[k \in 0..Len(ModuleNames)] ==
            IF k = 0 THEN <<>>
            ELSE IF k \in ks
                 THEN Append(F[k - 1],
                        [step |-> i, branch |-> branch, unet |-> u, name |-> ModuleNames[k],
                         base |-> settings[ModuleNames[k]],
                         dilate |-> Dilate(settings, ModuleNames[k], tau),
                         activate |-> i < tau])
                 ELSE F[k - 1]
    IN  F[Len(ModuleNames)]

\* ------------------------------------------------------------------ Init
\* forward's locals and the heap when main calls forward (line 409).
Start ==
    /\ pc = "Init"
    /\ i = 0
    /\ unet = None
    /\ unet_inflate = None
    /\ unet_inflate_vanilla = None
    /\ backup_forwards = [name \in {} |-> OrigForward]
    /\ noise_pred = <<>>
    /\ noise_pred_vanilla = <<>>
    /\ noise_pred_text = <<>>
    /\ noise_pred_uncond = <<>>
    /\ discarded = <<>>
    /\ error = None
    /\ latents = 1
    /\ forward = [u \in {self_unet} |-> [name \in Layers |-> OrigForward]]
    /\ inflated = [u \in {self_unet} |-> {}]
    /\ log = <<>>
    /\ history = <<>>
    /\ num_updates = 0
    /\ plain_latents = 1

\* The schedule parameters main reads from the configuration (lines 398-410).
Schedule ==
    /\ ndcfg_tau \in 0..MaxTau
    /\ dilate_tau \in 0..MaxTau
    /\ inflate_tau \in 0..MaxTau
    /\ inflate_settings \in SUBSET ConvNames
    /\ transform \in Transforms
    /\ progressive \in BOOLEAN
    /\ num_inference_steps \in 1..MaxSteps

\* Every configuration and every guidance argument, the base rates taken
\* from the two ends of their range.
Init ==
    /\ Schedule
    /\ dilate_settings \in DilateSettings({1, MaxRate})
    /\ ndcfg_dilate_settings \in DilateSettings({1, MaxRate})
    /\ guidance_scale \in GuidanceScales
    /\ guidance_rescale \in GuidanceRescales
    /\ Start

\* Every configuration with every base rate, guidance_rescale left at
\* forward's default 0.0 as main leaves it.
InitRate ==
    /\ Schedule
    /\ dilate_settings \in DilateSettings(1..MaxRate)
    /\ ndcfg_dilate_settings \in DilateSettings(1..MaxRate)
    /\ guidance_scale \in GuidanceScales
    /\ guidance_rescale = 0
    /\ Start

\* --------------------------------------------------------------- actions
\* lines 179-190: build the inflated copies, enter the loop.
Prepare ==
    /\ pc = "Init"
    /\ LET c1 == NewObject
           h1 == IF BuildInflate
                 THEN [u \in DOMAIN forward \cup {c1} |->
                          IF u = c1 THEN forward[self_unet] ELSE forward[u]]
                 ELSE forward
           k1 == IF BuildInflate
                 THEN [u \in DOMAIN h1 |->
                          IF u = c1 THEN InflateKernels(inflate_settings) ELSE inflated[u]]
                 ELSE inflated
           c2 == IF "copy1" \notin DOMAIN h1 THEN "copy1" ELSE "copy2"
           h2 == IF BuildInflateVanilla
                 THEN [u \in DOMAIN h1 \cup {c2} |->
                          IF u = c2 THEN h1[self_unet] ELSE h1[u]]
                 ELSE h1
           k2 == IF BuildInflateVanilla
                 THEN [u \in DOMAIN h2 |->
                          IF u = c2 THEN InflateKernels(inflate_settings) ELSE k1[u]]
                 ELSE k1
       IN  /\ unet_inflate' = IF BuildInflate THEN c1 ELSE None
           /\ unet_inflate_vanilla' = IF BuildInflateVanilla THEN c2 ELSE None
           /\ forward' = h2
           /\ inflated' = k2
    /\ pc' = "adapted_patch"
    /\ UNCHANGED <<config, i, unet, backup_forwards, preds, latents, error,
                   log, history, num_updates, plain_latents>>

\* The patch loop of one branch on network u (lines 196-209, 224-237); a
\* raise leaves the loop where it stands.
Patch(branch, u, settings, tau, first) ==
    /\ unet' = u
    /\ IF u = None
       THEN \* None.named_modules()
            /\ pc' = "Failed"
            /\ error' = "AttributeError"
            /\ backup_forwards' = [name \in {} |-> OrigForward]
            /\ UNCHANGED <<forward, history>>
            /\ log' = IF first THEN <<>> ELSE log
       ELSE IF DivisionByZero(settings, tau)
       THEN \* raised at the first key, after its backup was taken
            /\ pc' = "Failed"
            /\ error' = "ZeroDivisionError"
            /\ backup_forwards' = [name \in {FirstKey(settings)} |-> forward[u][name]]
            /\ UNCHANGED <<forward, history>>
            /\ log' = IF first THEN <<>> ELSE log
       ELSE /\ pc' = IF first THEN "adapted_unet" ELSE "vanilla_unet"
            /\ error' = error
            /\ backup_forwards' = BackupForwards(u, settings)
            /\ forward' = [forward EXCEPT ![u] = PatchForwards(u, settings, tau)]
            /\ history' = history \o Installed(branch, u, settings, tau)
            /\ log' = Append(IF first THEN <<>> ELSE log, Event("patch", branch, u))
    /\ UNCHANGED <<config, i, unet_inflate, unet_inflate_vanilla, preds, latents,
                   inflated, num_updates, plain_latents>>

\* lines 191-209
PatchAdapted ==
    /\ pc = "adapted_patch"
    /\ Patch("adapted", SelectAdapted, dilate_settings, dilate_tau, TRUE)

\* lines 212-217: the network runs, or raises.
InvokeAdapted ==
    /\ pc = "adapted_unet"
    /\ \E ok \in BOOLEAN :
        IF ok
        THEN /\ noise_pred' = UNetCall(unet)
             /\ pc' = "adapted_unpatch"
             /\ log' = Append(log, Event("unet", "adapted", unet))
             /\ error' = error
        ELSE /\ pc' = "Failed"
             /\ error' = "unet"
             /\ UNCHANGED <<noise_pred, log>>
    /\ UNCHANGED <<config, i, unet, unet_inflate, unet_inflate_vanilla, backup_forwards,
                   noise_pred_vanilla, noise_pred_text, noise_pred_uncond, discarded,
                   latents, forward, inflated, history, num_updates, plain_latents>>

\* lines 219-223
UnpatchAdapted ==
    /\ pc = "adapted_unpatch"
    /\ forward' = [forward EXCEPT ![unet] = RestoreForwards(unet)]
    /\ log' = Append(log, Event("unpatch", "adapted", unet))
    /\ pc' = IF VanillaBranch THEN "vanilla_patch" ELSE "guidance"
    /\ UNCHANGED <<config, i, unet, unet_inflate, unet_inflate_vanilla, backup_forwards,
                   preds, latents, error, inflated, history, num_updates, plain_latents>>

\* lines 224-237
PatchVanilla ==
    /\ pc = "vanilla_patch"
    /\ Patch("vanilla", SelectVanilla, ndcfg_dilate_settings, ndcfg_tau, FALSE)

\* lines 239-244
InvokeVanilla ==
    /\ pc = "vanilla_unet"
    /\ \E ok \in BOOLEAN :
        IF ok
        THEN /\ noise_pred_vanilla' = UNetCall(unet)
             /\ pc' = "vanilla_unpatch"
             /\ log' = Append(log, Event("unet", "vanilla", unet))
             /\ error' = error
        ELSE /\ pc' = "Failed"
             /\ error' = "unet"
             /\ UNCHANGED <<noise_pred_vanilla, log>>
    /\ UNCHANGED <<config, i, unet, unet_inflate, unet_inflate_vanilla, backup_forwards,
                   noise_pred, noise_pred_text, noise_pred_uncond, discarded,
                   latents, forward, inflated, history, num_updates, plain_latents>>

\* lines 246-248
UnpatchVanilla ==
    /\ pc = "vanilla_unpatch"
    /\ forward' = [forward EXCEPT ![unet] = RestoreForwards(unet)]
    /\ log' = Append(log, Event("unpatch", "vanilla", unet))
    /\ pc' = "guidance"
    /\ UNCHANGED <<config, i, unet, unet_inflate, unet_inflate_vanilla, backup_forwards,
                   preds, latents, error, inflated, history, num_updates, plain_latents>>

\* lines 250-257
Guidance ==
    /\ pc = "guidance"
    /\ IF do_classifier_free_guidance
       THEN /\ noise_pred_uncond' = <<noise_pred[1]>>
            /\ noise_pred_text' = <<noise_pred[2]>>
            /\ IF i < ndcfg_tau
               THEN /\ noise_pred_vanilla' = <<noise_pred_vanilla[1]>>
                    /\ discarded' = <<noise_pred_vanilla[2]>>
               ELSE UNCHANGED <<noise_pred_vanilla, discarded>>
            /\ noise_pred' = <<GuidedNoise>>
       ELSE UNCHANGED preds
    /\ log' = Append(log, Event("guidance", "-", None))
    /\ pc' = "rescale"
    /\ UNCHANGED <<config, i, unet, unet_inflate, unet_inflate_vanilla, backup_forwards,
                   latents, error, forward, inflated, history, num_updates, plain_latents>>

\* lines 259-261
Rescale ==
    /\ pc = "rescale"
    /\ noise_pred' = IF do_classifier_free_guidance /\ guidance_rescale > 0
                     THEN <<RescaleNoiseCfg(noise_pred[1], noise_pred_text[1], guidance_rescale)>>
                     ELSE noise_pred
    /\ pc' = "scheduler_step"
    /\ UNCHANGED <<config, i, unet, unet_inflate, unet_inflate_vanilla, backup_forwards,
                   noise_pred_vanilla, noise_pred_text, noise_pred_uncond, discarded,
                   latents, error, forward, inflated, log, history, num_updates,
                   plain_latents>>

\* lines 263-270 and the loop's next iteration (line 191)
Step ==
    /\ pc = "scheduler_step"
    /\ latents' = SchedulerStep(noise_pred[1], Timestep(i), latents)
    /\ plain_latents' = SchedulerStep(PlainNoise, Timestep(i), plain_latents)
    /\ num_updates' = num_updates + 1
    /\ log' = Append(log, Event("scheduler.step", "-", None))
    /\ i' = i + 1
    /\ pc' = IF i + 1 < num_inference_steps THEN "adapted_patch" ELSE "Decoding"
    /\ UNCHANGED <<config, unet, unet_inflate, unet_inflate_vanilla, backup_forwards,
                   preds, error, forward, inflated, history>>

\* lines 272-293: main leaves output_type at "pil", so the latent is decoded.
Decode ==
    /\ pc = "Decoding"
    /\ pc' = "Done"
    /\ UNCHANGED <<config, i, unet, unet_inflate, unet_inflate_vanilla, backup_forwards,
                   preds, latents, error, forward, inflated, log, history, num_updates,
                   plain_latents>>

Next ==
    \/ Prepare
    \/ PatchAdapted
    \/ InvokeAdapted
    \/ UnpatchAdapted
    \/ PatchVanilla
    \/ InvokeVanilla
    \/ UnpatchVanilla
    \/ Guidance
    \/ Rescale
    \/ Step
    \/ Decode

Spec == Init /\ [][Next]_vars

\* The same loop over the full range of base rates.
RateSpec == InitRate /\ [][Next]_vars

\* forward runs to completion once called: no step of it waits on anything.
FairSpec == Init /\ [][Next]_vars /\ WF_vars(Next)

\* ---------------------------------------------------------------- claims
Networks == DOMAIN forward

AllOriginal(u) == \A name \in Layers : forward[u][name] = OrigForward

\* The positions of forward between a patch loop and its restore loop.
PatchedPcs == {"adapted_unet", "adapted_unpatch", "vanilla_unet", "vanilla_unpatch"}
AdaptedPcs == {"adapted_unet", "adapted_unpatch"}
VanillaPcs == {"vanilla_unet", "vanilla_unpatch"}
StepPcs == {"adapted_patch", "adapted_unet", "adapted_unpatch", "vanilla_patch",
            "vanilla_unet", "vanilla_unpatch", "guidance", "rescale", "scheduler_step"}

\* C1: in a run in which nothing failed, outside the span from a patch loop
\* to its restore loop (so where a step begins, between the two branches and
\* at the end of the run) every module of every network object has its own
\* forward; inside the span only the invoked network is patched, only in the
\* modules of the backup, and the backup holds original forwards, so no
\* network ever carries one patch on top of another.
C1_PatchesRestored ==
    pc # "Failed" =>
        /\ pc \notin PatchedPcs => \A u \in Networks : AllOriginal(u)
        /\ pc \in PatchedPcs =>
            /\ \A u \in Networks \ {unet} : AllOriginal(u)
            /\ \A name \in Layers :
                  forward[unet][name] # OrigForward => name \in DOMAIN backup_forwards
            /\ \A name \in DOMAIN backup_forwards : backup_forwards[name] = OrigForward

\* The vanilla branch holds its patch on the base network, which the adapted
\* branch patched and restored earlier in the same step, in a step after the
\* first.
C1_Witness ==
    /\ pc = "vanilla_unet"
    /\ i >= 1
    /\ unet = self_unet
    /\ "conv1" \in DOMAIN dilate_settings
    /\ forward[self_unet]["conv1"] # OrigForward
    /\ \E k \in 1..Len(log) : log[k] = Event("unpatch", "adapted", self_unet)

\* C2: after a raise no module of any network carries a dilation-aware
\* replacement forward.
C2_RestoredAfterFailure ==
    pc = "Failed" =>
        \A u \in Networks : \A name \in Layers : ~DilationActive(forward[u][name])

\* C5: with dilate_tau = 0 the rate computation never raises.
C5_TauZeroNeverDivides ==
    dilate_tau = 0 => error # "ZeroDivisionError"

\* C6: while a branch's network invocation is pending, a module of the
\* invoked network computes dilation-aware only if its name is a key of the
\* branch's settings and the step is below the branch's tau; a module the
\* settings do not name keeps its own forward.
C6_ActiveOnlyInSettingsBelowTau ==
    /\ pc = "adapted_unet" =>
          \A name \in Layers :
              /\ DilationActive(forward[unet][name]) =>
                    name \in DOMAIN dilate_settings /\ i < dilate_tau
              /\ name \notin DOMAIN dilate_settings => forward[unet][name] = OrigForward
    /\ pc = "vanilla_unet" =>
          \A name \in Layers :
              /\ DilationActive(forward[unet][name]) =>
                    name \in DOMAIN ndcfg_dilate_settings /\ i < ndcfg_tau
              /\ name \notin DOMAIN ndcfg_dilate_settings => forward[unet][name] = OrigForward

\* A module of the settings, patched at a step at or past dilate_tau, about
\* to run as a pass-through, in a run where it was dilation-active before.
C6_Witness ==
    /\ pc = "adapted_unet"
    /\ "conv1" \in DOMAIN dilate_settings
    /\ i >= dilate_tau
    /\ dilate_tau > 0
    /\ forward[unet]["conv1"].processor = "ReDilateConvProcessor"
    /\ ~DilationActive(forward[unet]["conv1"])

\* C7: the network a branch patches and invokes is the branch's own inflated
\* copy exactly when i < inflate_tau and a transform is configured, and the
\* base network otherwise; it is an object that exists; the copies are
\* distinct objects, distinct from the base network, whose kernels stay as
\* they were.
C7_NetworkSelection ==
    /\ error # "AttributeError"
    /\ inflated[self_unet] = {}
    /\ unet_inflate # None =>
          /\ unet_inflate \in Networks \ {self_unet}
          /\ unet_inflate # unet_inflate_vanilla
          /\ inflated[unet_inflate] = inflate_settings
    /\ unet_inflate_vanilla # None =>
          /\ unet_inflate_vanilla \in Networks \ {self_unet}
          /\ inflated[unet_inflate_vanilla] = inflate_settings
    /\ pc \in AdaptedPcs =>
          /\ unet \in Networks
          /\ (unet = unet_inflate) <=> (i < inflate_tau /\ transform # None)
          /\ (unet = self_unet) <=> ~(i < inflate_tau /\ transform # None)
    /\ pc \in VanillaPcs =>
          /\ unet \in Networks
          /\ (unet = unet_inflate_vanilla) <=> (i < inflate_tau /\ transform # None)
          /\ (unet = self_unet) <=> ~(i < inflate_tau /\ transform # None)

\* The vanilla branch is about to invoke its own inflated copy while the
\* adapted branch's copy exists beside it.
C7_Witness ==
    /\ pc = "vanilla_unet"
    /\ unet = unet_inflate_vanilla
    /\ unet_inflate \in Networks
    /\ inflated[unet] # {}

\* C3 as claimed: under guidance the combined estimate is
\* uncond + guidance_scale * (cond - uncond) with both halves taken from the
\* vanilla prediction inside the ndcfg window, from the adapted one after it.
C3_BothHalvesFromOneBranch ==
    (pc = "rescale" /\ do_classifier_free_guidance) =>
        LET uncond == IF i < ndcfg_tau THEN noise_pred_vanilla[1] ELSE noise_pred_uncond[1]
            cond == IF i < ndcfg_tau THEN discarded[1] ELSE noise_pred_text[1]
        IN  noise_pred[1] = uncond + guidance_scale * (cond - uncond)

\* C3 amended: inside the ndcfg window the vanilla prediction supplies only
\* the unconditional base; the guidance direction cond - uncond is always the
\* adapted prediction's.
C3_VanillaBaseAdaptedDirection ==
    (pc = "rescale" /\ do_classifier_free_guidance) =>
        LET base == IF i < ndcfg_tau THEN noise_pred_vanilla[1] ELSE noise_pred_uncond[1]
        IN  noise_pred[1] = base + guidance_scale * (noise_pred_text[1] - noise_pred_uncond[1])

\* Guidance has combined a step inside the ndcfg window in which the two
\* branches predicted differently in both halves.
C3_Witness ==
    /\ pc = "rescale"
    /\ do_classifier_free_guidance
    /\ i < ndcfg_tau
    /\ noise_pred_vanilla[1] # noise_pred_uncond[1]
    /\ discarded[1] - noise_pred_vanilla[1] # noise_pred_text[1] - noise_pred_uncond[1]

\* The processors installed so far by one branch on one module while the
\* branch's schedule was active (step below the branch's tau).
Active(e) == e.activate
TauOf(e) == IF e.branch = "adapted" THEN dilate_tau ELSE ndcfg_tau
Halved(e) == e.step < inflate_tau /\ e.name \in inflate_settings
SameLayer(a, b) == a.branch = b.branch /\ a.name = b.name
Entries == {history[k] : k \in 1..Len(history)}

\* C4 as claimed (rates doubled: 4 is the rate 2): with progressive the
\* patched rate never rises from one step below tau to a later one, and is 2
\* at step tau - 1.
C4_NonIncreasingEndingAtTwo ==
    progressive =>
        /\ \A a, b \in Entries :
              (Active(a) /\ Active(b) /\ SameLayer(a, b) /\ a.step < b.step)
                  => b.dilate <= a.dilate
        /\ \A e \in Entries : (Active(e) /\ e.step = TauOf(e) - 1) => e.dilate = 4

\* C4 amended: the rate before the inflate-window halving is non-increasing
\* below tau and is 2 at step tau - 1 when the base rate is at most 2 * tau;
\* the patched rate is that rate, halved at the steps below inflate_tau of an
\* inflation-eligible module.  So among halved steps and among unhalved steps
\* the patched rate never rises, across the end of the inflate window it at
\* most doubles, and at step tau - 1 it is 2, or 1 when halved.
C4_NonIncreasingBeforeHalving ==
    progressive =>
        /\ \A a, b \in Entries :
              (Active(a) /\ Active(b) /\ SameLayer(a, b) /\ a.step < b.step) =>
                  /\ Halved(a) = Halved(b) => b.dilate <= a.dilate
                  /\ (Halved(a) /\ ~Halved(b)) => b.dilate <= 2 * a.dilate
                  /\ ~(Halved(b) /\ ~Halved(a))
        /\ \A e \in Entries :
              (Active(e) /\ e.step = TauOf(e) - 1 /\ e.base <= 2 * TauOf(e)) =>
                  e.dilate = IF Halved(e) THEN 2 ELSE 4

\* A progressive schedule has run down from a higher rate to its last active
\* step.
C4_Witness ==
    /\ progressive
    /\ \E a, b \in Entries :
          /\ Active(a) /\ Active(b) /\ SameLayer(a, b)
          /\ a.step < b.step
          /\ b.step = TauOf(b) - 1
          /\ b.dilate < a.dilate
          /\ ~Halved(a)

\* C10: a processor installed while its schedule is active has a rate of at
\* least 1 (doubled: 2).
C10_ActiveRateAtLeastOne ==
    \A e \in Entries : Active(e) => e.dilate >= 2

\* Every schedule at 0, progressive off, guidance_scale 1.0.
Disabled ==
    /\ dilate_tau = 0
    /\ ndcfg_tau = 0
    /\ inflate_tau = 0
    /\ ~progressive
    /\ guidance_scale = 1

\* C8: with every schedule at 0, progressive off and guidance_scale 1.0 the
\* loop is the unmodified loop: nothing but the network can raise, the only
\* network invoked is the base network, once per step, no module of it
\* dilation-active and no kernel inflated, its prediction reaches the scheduler
\* as it is, and the latents are those of the unmodified loop.
C8_DisabledIsPlainLoop ==
    Disabled =>
        /\ error \in {None, "unet"}
        /\ latents = plain_latents
        /\ pc \notin VanillaPcs \cup {"vanilla_patch"}
        /\ pc \in AdaptedPcs =>
              /\ unet = self_unet
              /\ inflated[unet] = {}
              /\ \A name \in Layers : ~DilationActive(forward[unet][name])
        /\ pc = "scheduler_step" =>
              /\ log = <<Event("patch", "adapted", self_unet),
                         Event("unet", "adapted", self_unet),
                         Event("unpatch", "adapted", self_unet),
                         Event("guidance", "-", None)>>
              /\ noise_pred = <<PlainNoise>>

\* The disabled loop has finished a run of several steps with a module named
\* in the settings, a transform configured and guidance_rescale set.
C8_Witness ==
    /\ Disabled
    /\ pc = "Done"
    /\ num_updates >= 2
    /\ "conv1" \in DOMAIN dilate_settings
    /\ transform # None
    /\ guidance_rescale > 0

\* The events of step k in the order the loop produces them.
BranchOps(branch) == <<<<"patch", branch>>, <<"unet", branch>>, <<"unpatch", branch>>>>
StepOps(k) ==
    BranchOps("adapted")
        \o (IF k < ndcfg_tau THEN BranchOps("vanilla") ELSE <<>>)
        \o <<<<"guidance", "-">>, <<"scheduler.step", "-">>>>
LogOps == [k \in 1..Len(log) |-> <<log[k].op, log[k].branch>>]

\* How many events of its step have happened when forward stands at p.
EventsAt(p) ==
    CASE p = "adapted_unet" -> 1
      [] p = "adapted_unpatch" -> 2
      [] p = "vanilla_patch" -> 3
      [] p = "vanilla_unet" -> 4
      [] p = "vanilla_unpatch" -> 5
      [] p = "guidance" -> Len(StepOps(i)) - 2
      [] OTHER -> Len(StepOps(i)) - 1

C9_Order ==
    pc # "Failed" =>
        /\ num_updates = i
        /\ i <= num_inference_steps
        /\ pc = "Init" => i = 0 /\ log = <<>>
        /\ pc \in StepPcs => i < num_inference_steps
        /\ pc = "adapted_patch" => LogOps = IF i = 0 THEN <<>> ELSE StepOps(i - 1)
        /\ pc \in StepPcs \ {"adapted_patch"} => LogOps = SubSeq(StepOps(i), 1, EventsAt(pc))
        /\ pc \in VanillaPcs \cup {"vanilla_patch"} => i < ndcfg_tau
        /\ pc \in {"Decoding", "Done"} =>
              /\ i = num_inference_steps
              /\ LogOps = StepOps(num_inference_steps - 1)

C9_Transition ==
    /\ pc = "Init" => pc' = "adapted_patch"
    /\ pc \in StepPcs \ {"scheduler_step"} => (pc' \in StepPcs \cup {"Failed"} /\ i' = i)
    /\ pc = "scheduler_step" =>
          /\ i' = i + 1
          /\ num_updates' = num_updates + 1
          /\ pc' = IF i' < num_inference_steps THEN "adapted_patch" ELSE "Decoding"
    /\ pc = "Decoding" => pc' = "Done"
    /\ pc \in {"Done", "Failed"} => pc' = pc

\* C9: a run goes Init, Stepping(0), ..., Stepping(T-1), Decoding, Done; each
\* step is adapted patch, invoke, unpatch, then the same for the vanilla
\* branch exactly when i < ndcfg_tau, then guidance, then one scheduler update;
\* the latent has been updated i times when step i starts and T times when
\* decoding starts; and every run ends, in Done unless something raised.
C9_RunOrderAndTermination ==
    /\ []C9_Order
    /\ [][C9_Transition]_vars
    /\ <>(pc \in {"Done", "Failed"})

\* A finished run whose first step ran the vanilla branch and whose last
\* step did not.
C9_Witness ==
    /\ pc = "Done"
    /\ num_updates = num_inference_steps
    /\ 0 < ndcfg_tau
    /\ ndcfg_tau < num_inference_steps

====
